---- MODULE Spec2Model ----
(***************************************************************************)
(* A model of rastervision.pytorch_learner.object_detection_utils:         *)
(* the BoxList class (a list of boxes with parallel per-box arrays), the   *)
(* torchvision operations it calls, and TorchVisionODAdapter's conversion  *)
(* of a detection dict into a BoxList.                                     *)
(*                                                                         *)
(* Objects live in a heap (a sequence; an object's identity is its index). *)
(* A tensor is a record [data, mem]: data is the sequence of its rows and  *)
(* mem is where it lives ("cpu", "pinned", "cuda"); a value that is not a  *)
(* tensor would have mem = "py" (BoxList.__init__ documents the extras as  *)
(* tensors, and the collections built here hold tensors only).  Python     *)
(* indices are 0-based, the sequences here 1-based.  Coordinates, scores   *)
(* and class ids are integers; an IoU threshold is a fraction <<num, den>>.*)
(***************************************************************************)
EXTENDS Integers, Sequences, FiniteSets, TLC

VARIABLES heap, log

vars == <<heap, log>>

\* ------------------------------------------------------------------ bounds

\* Rows of a constructed collection (construction and transform runs).
MaxLen == 2
\* Length of an index list handed to ind_filter.
MaxInds == 2

\* ------------------------------------------------------------------ values

SeqsUpTo(S, n) == UNION {[1..k -> S] : k \in 0..n}

Range(s) == {s[i] : i \in DOMAIN s}

Tensor(d) == [data |-> d, mem |-> "cpu"]

is_tensor(v) == v.mem # "py"

Ok(v) == [ok |-> TRUE, val |-> v]

Raise(e) == [ok |-> FALSE, exc |-> e]

\* ------------------------------------------------------- torchvision.ops

Formats == {"xyxy", "yxyx", "xywh", "cxcywh"}

\* box_convert(boxes, in_fmt, 'xyxy'), one row.  cxcywh halves the width and
\* the height; the inputs drawn have even widths and heights.
to_xyxy(b, fmt) ==
  CASE fmt = "xyxy" -> b
    [] fmt = "xywh" -> <<b[1], b[2], b[1] + b[3], b[2] + b[4]>>
    [] fmt = "cxcywh" -> <<b[1] - (b[3] \div 2), b[2] - (b[4] \div 2),
                           b[1] + (b[3] \div 2), b[2] + (b[4] \div 2)>>

\* box_convert(boxes, 'xyxy', out_fmt), one row.
from_xyxy(b, fmt) ==
  CASE fmt = "xyxy" -> b
    [] fmt = "xywh" -> <<b[1], b[2], b[3] - b[1], b[4] - b[2]>>
    [] fmt = "cxcywh" -> <<(b[1] + b[3]) \div 2, (b[2] + b[4]) \div 2,
                           b[3] - b[1], b[4] - b[2]>>

box_convert(boxes, in_fmt, out_fmt) ==
  IF in_fmt \notin {"xyxy", "xywh", "cxcywh"} \/ out_fmt \notin {"xyxy", "xywh", "cxcywh"}
  THEN Raise("ValueError")
  ELSE Ok([data |-> [i \in DOMAIN boxes.data |->
                       from_xyxy(to_xyxy(boxes.data[i], in_fmt), out_fmt)],
           mem |-> IF boxes.mem = "cuda" THEN "cuda" ELSE "cpu"])

\* boxes[:, [1, 0, 3, 2]]
SwapXY(boxes) ==
  [data |-> [i \in DOMAIN boxes.data |->
               <<boxes.data[i][2], boxes.data[i][1], boxes.data[i][4], boxes.data[i][3]>>],
   mem |-> IF boxes.mem = "cuda" THEN "cuda" ELSE "cpu"]

\* ---------------------------------------------------------------- BoxList

\* BoxList.__init__: extras are kept as given, in keyword order; the boxes
\* are converted to the stored layout.
BoxList(boxes, format, extras) ==
  IF format = "xyxy" THEN Ok([boxes |-> boxes, extras |-> extras])
  ELSE IF format = "yxyx" THEN Ok([boxes |-> SwapXY(boxes), extras |-> extras])
  ELSE LET c == box_convert(boxes, format, "xyxy")
       IN  IF c.ok THEN Ok([boxes |-> c.val, extras |-> extras]) ELSE c

len(bl) == Len(bl.boxes.data)

Keys(bl) == {bl.extras[k].key : k \in DOMAIN bl.extras}

HasKey(bl, name) == \E k \in DOMAIN bl.extras : bl.extras[k].key = name

\* extras.get(name); only used where HasKey holds, None is tested by HasKey.
get_field(bl, name) ==
  IF name = "boxes" THEN bl.boxes
  ELSE (CHOOSE e \in Range(bl.extras) : e.key = name).val

\* BoxList._map_extras: func applied to the values cond accepts, the others
\* carried over as they are; key order is kept.  The first func that raises
\* ends the call.  func and cond are given as tables over the extras of bl:
\* func[k] and cond[k] are their results on the k-th key and value.
_map_extras(bl, func, cond) ==
  LET r == [k \in DOMAIN bl.extras |->
              IF cond[k] THEN func[k] ELSE Ok(bl.extras[k].val)]
      bad == {k \in DOMAIN r : ~r[k].ok}
  IN  IF bad # {}
      THEN Raise(r[CHOOSE k \in bad : \A j \in bad : k <= j].exc)
      ELSE Ok([k \in DOMAIN r |-> [key |-> bl.extras[k].key, val |-> r[k].val]])

\* An index list [mask |-> FALSE, v |-> <<i, ...>>] of 0-based (or negative)
\* positions, or a boolean mask [mask |-> TRUE, v |-> <<b, ...>>].
IndexList(v) == [mask |-> FALSE, v |-> v]

Mask(v) == [mask |-> TRUE, v |-> v]

Derived(t) == IF t.mem = "cuda" THEN "cuda" ELSE "cpu"

RECURSIVE MaskSelect(_, _, _)
MaskSelect(d, m, k) ==
  IF k > Len(d) THEN <<>>
  ELSE (IF m[k] THEN <<d[k]>> ELSE <<>>) \o MaskSelect(d, m, k + 1)

\* tensor[inds]: advanced indexing along the first dimension.
TensorIndex(t, inds) ==
  LET n == Len(t.data)
  IN  IF inds.mask
      THEN IF Len(inds.v) # n THEN Raise("IndexError")
           ELSE Ok([data |-> MaskSelect(t.data, inds.v, 1), mem |-> Derived(t)])
      ELSE IF \E k \in DOMAIN inds.v : inds.v[k] < -n \/ inds.v[k] >= n
           THEN Raise("IndexError")
           ELSE Ok([data |-> [k \in DOMAIN inds.v |->
                                t.data[(IF inds.v[k] < 0 THEN inds.v[k] + n ELSE inds.v[k]) + 1]],
                    mem |-> Derived(t)])

\* A faulty ind_filter: the boxes are indexed, the extras are passed on as
\* they are.
ind_filter_boxes_only(bl, inds) ==
  LET boxes == TensorIndex(bl.boxes, inds)
  IN  IF ~boxes.ok THEN boxes ELSE BoxList(boxes.val, "xyxy", bl.extras)

\* BoxList.ind_filter
ind_filter(bl, inds) ==
  LET boxes == TensorIndex(bl.boxes, inds)
      extras == _map_extras(bl,
                  [k \in DOMAIN bl.extras |-> TensorIndex(bl.extras[k].val, inds)],
                  [k \in DOMAIN bl.extras |-> is_tensor(bl.extras[k].val)])
  IN  IF ~boxes.ok THEN boxes
      ELSE IF ~extras.ok THEN extras
      ELSE BoxList(boxes.val, "xyxy", extras.val)

\* BoxList.score_filter; scores > score_thresh is a mask over the scores.
score_filter(bl, score_thresh) ==
  IF HasKey(bl, "scores")
  THEN LET scores == get_field(bl, "scores")
       IN  IF ~is_tensor(scores) THEN Raise("TypeError")
           ELSE ind_filter(bl, Mask([i \in DOMAIN scores.data |->
                                       scores.data[i] > score_thresh]))
  ELSE Raise("ValueError")

Clamp(v, lo, hi) == IF v < lo THEN lo ELSE IF v > hi THEN hi ELSE v

\* torchvision clip_boxes_to_image(boxes, (height, width)): positions 0 and 2
\* are clamped to [0, width], positions 1 and 3 to [0, height].
clip_boxes_to_image(boxes, height, width) ==
  [data |-> [i \in DOMAIN boxes.data |->
               <<Clamp(boxes.data[i][1], 0, width), Clamp(boxes.data[i][2], 0, height),
                 Clamp(boxes.data[i][3], 0, width), Clamp(boxes.data[i][4], 0, height)>>],
   mem |-> Derived(boxes)]

\* BoxList.clip_boxes
clip_boxes(bl, img_height, img_width) ==
  BoxList(clip_boxes_to_image(bl.boxes, img_height, img_width), "xyxy", bl.extras)

\* BoxList.scale: self.boxes * [[yscale, xscale, yscale, xscale]]
scale(bl, yscale, xscale) ==
  BoxList([data |-> [i \in DOMAIN bl.boxes.data |->
                       <<bl.boxes.data[i][1] * yscale, bl.boxes.data[i][2] * xscale,
                         bl.boxes.data[i][3] * yscale, bl.boxes.data[i][4] * xscale>>],
           mem |-> Derived(bl.boxes)],
          "xyxy", bl.extras)

\* BoxList.convert_boxes: a box tensor, not a BoxList.
convert_boxes(bl, out_fmt) ==
  IF out_fmt = "yxyx" THEN Ok(SwapXY(bl.boxes))
  ELSE box_convert(bl.boxes, "xyxy", out_fmt)

\* ------------------------------------------------------------------- nms

Max(a, b) == IF a > b THEN a ELSE b

Min(a, b) == IF a < b THEN a ELSE b

Area(b) == (b[3] - b[1]) * (b[4] - b[2])

Inter(a, b) ==
  Max(0, Min(a[3], b[3]) - Max(a[1], b[1])) * Max(0, Min(a[4], b[4]) - Max(a[2], b[2]))

\* A faulty overlap test: the comparison is turned around.
IoUBelow(a, b, t) ==
  LET inter == Inter(a, b)
      union == Area(a) + Area(b) - inter
  IN  union > 0 /\ inter * t[2] < t[1] * union

\* inter / (area_a + area_b - inter) > num / den, as the nms kernel tests it;
\* a zero union gives NaN there, and NaN > t is false.
IoUAbove(a, b, t) ==
  LET inter == Inter(a, b)
      union == Area(a) + Area(b) - inter
  IN  union > 0 /\ inter * t[2] > t[1] * union

\* scores.sort(stable=True, descending=True): the rows by decreasing score,
\* rows of equal score in their original order.
SortOrder(scores) ==
  LET before(i) == {j \in DOMAIN scores :
                      scores[j] > scores[i] \/ (scores[j] = scores[i] /\ j < i)}
      rank == [i \in DOMAIN scores |-> Cardinality(before(i)) + 1]
  IN  [r \in DOMAIN scores |-> CHOOSE i \in DOMAIN scores : rank[i] = r]

\* A faulty walk: a kept row suppresses rows of every category (nms where
\* batched_nms is meant).
RECURSIVE NmsWalk_all_categories(_, _, _, _, _, _)
NmsWalk_all_categories(boxes, idxs, t, order, k, kept) ==
  IF k > Len(order) THEN kept
  ELSE LET i == order[k]
           suppressed == \E m \in DOMAIN kept : IoUAbove(boxes[kept[m]], boxes[i], t)
       IN  NmsWalk_all_categories(boxes, idxs, t, order, k + 1,
                                  IF suppressed THEN kept ELSE Append(kept, i))

\* The kernel's walk over the sorted rows: a row is kept unless a kept row of
\* the same category overlaps it by more than the threshold.
RECURSIVE NmsWalk(_, _, _, _, _, _)
NmsWalk(boxes, idxs, t, order, k, kept) ==
  IF k > Len(order) THEN kept
  ELSE LET i == order[k]
           suppressed == \E m \in DOMAIN kept :
                           /\ idxs[kept[m]] = idxs[i]
                           /\ IoUAbove(boxes[kept[m]], boxes[i], t)
       IN  NmsWalk(boxes, idxs, t, order, k + 1,
                   IF suppressed THEN kept ELSE Append(kept, i))

\* A faulty batched_nms: the indices kept are counted from one.
batched_nms_from_one(boxes, scores, idxs, iou_threshold) ==
  NmsWalk(boxes, idxs, iou_threshold, SortOrder(scores), 1, <<>>)

\* torchvision batched_nms(boxes, scores, idxs, iou_threshold): the 0-based
\* indices kept, in decreasing order of score.
batched_nms(boxes, scores, idxs, iou_threshold) ==
  LET kept == NmsWalk(boxes, idxs, iou_threshold, SortOrder(scores), 1, <<>>)
  IN  [k \in DOMAIN kept |-> kept[k] - 1]

\* BoxList.nms for a collection of at least one row (a collection of no rows
\* is returned itself, see Call_nms).
nms(bl, iou_thresh) ==
  IF ~HasKey(bl, "scores") \/ ~HasKey(bl, "class_ids") THEN Raise("TypeError")
  ELSE LET scores == get_field(bl, "scores")
           idxs == get_field(bl, "class_ids")
       IN  IF ~is_tensor(scores) \/ ~is_tensor(idxs) THEN Raise("TypeError")
           ELSE IF Len(scores.data) # len(bl) \/ Len(idxs.data) # len(bl)
           THEN Raise("RuntimeError")
           ELSE LET good_inds == batched_nms(bl.boxes.data, scores.data,
                                             idxs.data, iou_thresh)
                IN  ind_filter(bl, IndexList(good_inds))

\* ------------------------------------------------- cat, equal, residency

RECURSIVE Flatten(_)
Flatten(ss) == IF ss = <<>> THEN <<>> ELSE Head(ss) \o Flatten(Tail(ss))

\* The keys met while walking the collections and their extras, each once,
\* in the order it is first met (the insertion order of the defaultdict).
RECURSIVE FirstSeen(_)
FirstSeen(keys) ==
  IF keys = <<>> THEN <<>>
  ELSE LET front == FirstSeen(SubSeq(keys, 1, Len(keys) - 1))
           last == keys[Len(keys)]
       IN  IF last \in Range(front) THEN front ELSE Append(front, last)

\* BoxList.cat: torch.cat of the boxes, and per key torch.cat of the values
\* of the collections that have the key.  torch.cat of no tensors raises.
cat(box_lists) ==
  IF box_lists = <<>> THEN Raise("RuntimeError")
  ELSE LET boxes == Flatten([b \in DOMAIN box_lists |-> box_lists[b].boxes.data])
           keys == FirstSeen(Flatten([b \in DOMAIN box_lists |->
                                        [k \in DOMAIN box_lists[b].extras |->
                                           box_lists[b].extras[k].key]]))
           vals(key) == Flatten([b \in DOMAIN box_lists |->
                                   IF HasKey(box_lists[b], key)
                                   THEN get_field(box_lists[b], key).data
                                   ELSE <<>>])
       IN  BoxList([data |-> boxes, mem |-> Derived(box_lists[1].boxes)], "xyxy",
                   [k \in DOMAIN keys |->
                      [key |-> keys[k],
                       val |-> [data |-> vals(keys[k]),
                                mem |-> Derived(box_lists[1].boxes)]]])

Pow2_24 == 16777216

RECURSIVE Ulp(_, _)
Ulp(a, step) == IF a < Pow2_24 * step THEN step ELSE Ulp(a, 2 * step)

\* v.float(): the nearest single-precision value (24 bits of mantissa, ties
\* to even) of an integer.
Float32(v) ==
  LET a == IF v < 0 THEN -v ELSE v
      step == Ulp(a, 1)
      q == a \div step
      r == a % step
      m == IF 2 * r < step THEN q
           ELSE IF 2 * r > step THEN q + 1
           ELSE IF q % 2 = 0 THEN q ELSE q + 1
  IN  IF v < 0 THEN -(m * step) ELSE m * step

\* torch.cat([boxes] + extras, 1), as the set of its row tuples: the box and
\* then every extras value as a float, in the order of the extras.
RowTuples(bl) ==
  IF \E k \in DOMAIN bl.extras : ~is_tensor(bl.extras[k].val)
  THEN Raise("AttributeError")
  ELSE IF \E k \in DOMAIN bl.extras : Len(bl.extras[k].val.data) # len(bl)
  THEN Raise("RuntimeError")
  ELSE Ok({bl.boxes.data[i] \o [k \in DOMAIN bl.extras |->
                                  Float32(bl.extras[k].val.data[i])] :
             i \in 1..len(bl)})

\* A faulty equal: the lengths are not compared.
equal_any_length(self, other) ==
  LET self_tups == RowTuples(self)
      other_tups == RowTuples(other)
  IN  IF ~self_tups.ok THEN self_tups
      ELSE IF ~other_tups.ok THEN other_tups
      ELSE Ok(self_tups.val = other_tups.val)

\* BoxList.equal
equal(self, other) ==
  IF len(other) # len(self) THEN Ok(FALSE)
  ELSE LET self_tups == RowTuples(self)
           other_tups == RowTuples(other)
       IN  IF ~self_tups.ok THEN self_tups
           ELSE IF ~other_tups.ok THEN other_tups
           ELSE Ok(self_tups.val = other_tups.val)

\* tensor.to(device): the tensor itself when it is on the device already.
TensorTo(t, device) ==
  IF (t.mem = "cuda") = (device = "cuda") THEN t ELSE [t EXCEPT !.mem = device]

\* BoxList.to
to(bl, device) ==
  LET extras == _map_extras(bl,
                  [k \in DOMAIN bl.extras |-> Ok(TensorTo(bl.extras[k].val, device))],
                  [k \in DOMAIN bl.extras |-> is_tensor(bl.extras[k].val)])
  IN  BoxList(TensorTo(bl.boxes, device), "xyxy", extras.val)

\* BoxList.pin_memory: the tensors of the receiver are replaced by pinned
\* ones; torch refuses to pin a tensor that is not on the cpu.
pin_memory(bl) ==
  IF bl.boxes.mem = "cuda" THEN Raise("RuntimeError")
  ELSE Ok([boxes |-> [bl.boxes EXCEPT !.mem = "pinned"],
           extras |-> [k \in DOMAIN bl.extras |->
                         IF is_tensor(bl.extras[k].val)
                         THEN [bl.extras[k] EXCEPT !.val.mem = "pinned"]
                         ELSE bl.extras[k]]])

\* --------------------------------------------------- TorchVisionODAdapter

\* reduce(iand, exclude_masks): no initial value, so no masks is a TypeError.
RECURSIVE reduce_iand(_)
reduce_iand(masks) ==
  IF Len(masks) = 1 THEN masks[1]
  ELSE LET front == reduce_iand(SubSeq(masks, 1, Len(masks) - 1))
       IN  [i \in DOMAIN front |-> front[i] /\ masks[Len(masks)][i]]

\* TorchVisionODAdapter.model_output_dict_to_boxlist
model_output_dict_to_boxlist(out, ignored_output_inds) ==
  IF ignored_output_inds = <<>> THEN Raise("TypeError")
  ELSE LET exclude_masks == [k \in DOMAIN ignored_output_inds |->
                               [i \in DOMAIN out.labels.data |->
                                  out.labels.data[i] # ignored_output_inds[k]]]
           mask == Mask(reduce_iand(exclude_masks))
           boxes == TensorIndex(out.boxes, mask)
           labels == TensorIndex(out.labels, mask)
           scores == TensorIndex(out.scores, mask)
       IN  IF ~boxes.ok THEN boxes
           ELSE IF ~labels.ok THEN labels
           ELSE IF ~scores.ok THEN scores
           ELSE BoxList(boxes.val, "xyxy",
                        <<[key |-> "class_ids",
                           val |-> [data |-> [i \in DOMAIN labels.val.data |->
                                                labels.val.data[i] - 1],
                                    mem |-> Derived(labels.val)]],
                          [key |-> "scores", val |-> scores.val]>>)

\* ---------------------------------------------------------------- actions

\* The calls made so far, each with what it returned; call and ret are the
\* last call and its result.
Logged(name, self, args, r) ==
  log' = Append(log, [name |-> name, self |-> self, args |-> args, ret |-> r])

call == IF log = <<>> THEN [name |-> "none"] ELSE log[Len(log)]

ret == IF log = <<>> THEN [kind |-> "None"] ELSE log[Len(log)].ret

\* A call that returns a new object, or raises.
Return(name, self, args, outcome) ==
  \E out \in {outcome} :
    IF out.ok
    THEN /\ heap' = Append(heap, out.val)
         /\ Logged(name, self, args, [kind |-> "BoxList", id |-> Len(heap) + 1])
    ELSE /\ heap' = heap
         /\ Logged(name, self, args, [kind |-> "raise", exc |-> out.exc])

\* A call that returns something that is not a BoxList.
ReturnValue(name, self, args, outcome) ==
  \E out \in {outcome} :
    /\ heap' = heap
    /\ Logged(name, self, args,
              IF out.ok THEN [kind |-> "value", val |-> out.val]
              ELSE [kind |-> "raise", exc |-> out.exc])

Construct(boxes, format, extras) ==
  Return("__init__", 0, [boxes |-> boxes, format |-> format, extras |-> extras],
         BoxList(Tensor(boxes), format, extras))

Call_ind_filter(self, inds) ==
  Return("ind_filter", self, [inds |-> inds], ind_filter(heap[self], IndexList(inds)))

Call_score_filter(self, score_thresh) ==
  Return("score_filter", self, [score_thresh |-> score_thresh],
         score_filter(heap[self], score_thresh))

Call_clip_boxes(self, img_height, img_width) ==
  Return("clip_boxes", self, [img_height |-> img_height, img_width |-> img_width],
         clip_boxes(heap[self], img_height, img_width))

\* A faulty scale: the receiver is scaled in place and returned.
Call_scale_in_place(self, yscale, xscale) ==
  /\ heap' = [heap EXCEPT ![self] = scale(heap[self], yscale, xscale).val]
  /\ Logged("scale", self, [yscale |-> yscale, xscale |-> xscale],
            [kind |-> "BoxList", id |-> self])

Call_scale(self, yscale, xscale) ==
  Return("scale", self, [yscale |-> yscale, xscale |-> xscale],
         scale(heap[self], yscale, xscale))

Call_convert_boxes(self, out_fmt) ==
  ReturnValue("convert_boxes", self, [out_fmt |-> out_fmt],
              convert_boxes(heap[self], out_fmt))

\* BoxList.nms: a collection of no rows is returned itself.
Call_nms(self, iou_thresh) ==
  IF len(heap[self]) = 0
  THEN /\ heap' = heap
       /\ Logged("nms", self, [iou_thresh |-> iou_thresh],
                 [kind |-> "BoxList", id |-> self])
  ELSE Return("nms", self, [iou_thresh |-> iou_thresh], nms(heap[self], iou_thresh))

Call_cat(ids) ==
  Return("cat", 0, [box_lists |-> ids], cat([k \in DOMAIN ids |-> heap[ids[k]]]))

Call_equal(self, other) ==
  ReturnValue("equal", self, [other |-> other], equal(heap[self], heap[other]))

Call_to(self, device) ==
  Return("to", self, [device |-> device], to(heap[self], device))

\* BoxList.pin_memory changes the receiver and returns it.
Call_pin_memory(self) ==
  LET out == pin_memory(heap[self])
  IN  IF out.ok
      THEN /\ heap' = [heap EXCEPT ![self] = out.val]
           /\ Logged("pin_memory", self, <<>>, [kind |-> "BoxList", id |-> self])
      ELSE /\ heap' = heap
           /\ Logged("pin_memory", self, <<>>, [kind |-> "raise", exc |-> out.exc])

Call_model_output_dict_to_boxlist(out, ignored_output_inds) ==
  Return("model_output_dict_to_boxlist", 0,
         [out |-> out, ignored_output_inds |-> ignored_output_inds],
         model_output_dict_to_boxlist(out, ignored_output_inds))

Init ==
  /\ heap = <<>>
  /\ log = <<>>

\* ------------------------------------------------------------------ inputs

Entry(key, d) == [key |-> key, val |-> Tensor(d)]

ClassIds == {0, 1}

Scores == {30, 60}

\* Raw rows of four numbers, read according to the format given with them.
RawBoxes == {<<0, 0, 10, 10>>, <<2, 4, 6, 8>>}

\* Extras of any lengths, as a caller may pass them.
AnyExtras ==
  {<<>>}
    \cup {<<Entry("class_ids", c)>> : c \in SeqsUpTo(ClassIds, MaxLen)}
    \cup {<<Entry("class_ids", c), Entry("scores", x)>> :
            c \in SeqsUpTo(ClassIds, MaxLen), x \in SeqsUpTo(Scores, MaxLen)}

\* Extras of n rows each.
ExtrasOfLen(n) ==
  {<<>>}
    \cup {<<Entry("class_ids", c)>> : c \in [1..n -> ClassIds]}
    \cup {<<Entry("class_ids", c), Entry("scores", x)>> :
            c \in [1..n -> ClassIds], x \in [1..n -> Scores]}
    \cup {<<Entry("scores", x), Entry("class_ids", c)>> :
            c \in [1..n -> ClassIds], x \in [1..n -> Scores]}

\* ------------------------------------------------------ construction runs

NextInit ==
  log = <<>> /\ \E boxes \in SeqsUpTo(RawBoxes, MaxLen), format \in Formats \cup {"xyzw"},
     extras \in AnyExtras :
    Construct(boxes, format, extras)

SpecInit == Init /\ [][NextInit]_vars

\* The row (y_min, x_min, y_max, x_max) that a raw row denotes in a format.
CanonicalYXYX(b, fmt) ==
  CASE fmt = "yxyx" -> b
    [] fmt = "xyxy" -> <<b[2], b[1], b[4], b[3]>>
    [] fmt = "xywh" -> <<b[2], b[1], b[2] + b[4], b[1] + b[3]>>
    [] fmt = "cxcywh" -> <<b[2] - (b[4] \div 2), b[1] - (b[3] \div 2),
                           b[2] + (b[4] \div 2), b[1] + (b[3] \div 2)>>

\* C5: after construct(boxes, format, extras), for each supported format, the
\* stored box array holds every box as (y_min, x_min, y_max, x_max).
C5_CanonicalStorage ==
  (call.name = "__init__" /\ ret.kind = "BoxList" /\ call.args.format \in Formats)
    => heap[ret.id].boxes.data =
         [i \in DOMAIN call.args.boxes |->
            CanonicalYXYX(call.args.boxes[i], call.args.format)]

\* C7: construct fails with ShapeMismatch whenever some extras value has a
\* length different from the number of boxes.
C7_ShapeMismatchRaised ==
  (/\ call.name = "__init__"
   /\ \E k \in DOMAIN call.args.extras :
        Len(call.args.extras[k].val.data) # Len(call.args.boxes))
    => (ret.kind = "raise" /\ ret.exc = "ShapeMismatch")

\* --------------------------------------------------------- transform runs

IouThresholds == {<<1, 10>>, <<1, 2>>}

ScoreThresholds == {25, 50}

ImageSizes == {<<5, 7>>, <<20, 20>>}

Scales == {<<2, 3>>, <<1, 1>>}

\* One collection is constructed, with extras as long as the boxes, and one
\* transform is applied to it.
NextOps ==
  \/ log = <<>> /\ \E n \in 0..MaxLen :
       \E boxes \in [1..n -> RawBoxes], format \in Formats, extras \in ExtrasOfLen(n) :
         Construct(boxes, format, extras)
  \/ \E inds \in SeqsUpTo(-1..MaxLen, MaxInds) :
       Len(log) = 1 /\ Len(heap) = 1 /\ Call_ind_filter(1, inds)
  \/ \E score_thresh \in ScoreThresholds :
       Len(log) = 1 /\ Len(heap) = 1 /\ Call_score_filter(1, score_thresh)
  \/ \E size \in ImageSizes :
       Len(log) = 1 /\ Len(heap) = 1 /\ Call_clip_boxes(1, size[1], size[2])
  \/ \E f \in Scales :
       Len(log) = 1 /\ Len(heap) = 1 /\ Call_scale(1, f[1], f[2])
  \/ \E iou_thresh \in IouThresholds :
       Len(log) = 1 /\ Len(heap) = 1 /\ Call_nms(1, iou_thresh)

Spec == Init /\ [][NextOps]_vars

\* Every extras value of bl has as many rows as bl has boxes.
WellFormed(bl) ==
  \A k \in DOMAIN bl.extras : Len(bl.extras[k].val.data) = len(bl)

KeySeq(bl) == [k \in DOMAIN bl.extras |-> bl.extras[k].key]

\* Row i of R's boxes and of each of R's extras is row src[i] of C's.
RowsFrom(R, C, src) ==
  \A i \in 1..len(R) :
    /\ R.boxes.data[i] = C.boxes.data[src[i]]
    /\ \A k \in DOMAIN R.extras :
         R.extras[k].val.data[i] = C.extras[k].val.data[src[i]]

\* C1: for a collection C whose extras all have length len(C) and R the
\* result of index_filter, score_filter, clip_to_image, scale or suppress on
\* C: R has C's extras keys, every extras value of R has length len(R), and
\* row i of every extras value of R comes from the source row of C that box
\* i of R comes from (for index_filter, the row the index list names).
C1_Alignment ==
  (/\ call.name \in {"ind_filter", "score_filter", "clip_boxes", "scale", "nms"}
   /\ ret.kind = "BoxList"
   /\ WellFormed(heap[call.self]))
    => LET C == heap[call.self]
           R == heap[ret.id]
       IN  /\ KeySeq(R) = KeySeq(C)
           /\ WellFormed(R)
           /\ call.name \in {"clip_boxes", "scale"} =>
                /\ len(R) = len(C)
                /\ \A k \in DOMAIN R.extras :
                     R.extras[k].val.data = C.extras[k].val.data
           /\ call.name \in {"score_filter", "nms"} =>
                \E src \in [1..len(R) -> 1..len(C)] : RowsFrom(R, C, src)
           /\ call.name = "ind_filter" =>
                /\ len(R) = Len(call.args.inds)
                /\ RowsFrom(R, C,
                     [i \in 1..len(R) |->
                        (IF call.args.inds[i] < 0 THEN call.args.inds[i] + len(C)
                         ELSE call.args.inds[i]) + 1])

\* An index list that repeats and reorders rows was applied to a collection
\* of two rows with two extras.
C1_Witness ==
  /\ call.name = "ind_filter"
  /\ ret.kind = "BoxList"
  /\ call.args.inds = <<1, 1>>
  /\ Len(heap[1].extras) = 2
  /\ heap[1].boxes.data[1] # heap[1].boxes.data[2]
  /\ heap[1].extras[1].val.data[1] # heap[1].extras[1].val.data[2]
  /\ len(heap[ret.id]) = 2

\* -------------------------------------------------------- suppression runs

\* Rows of a collection handed to nms.
NmsRows == 3

NmsPool == {<<0, 0, 10, 10>>, <<1, 1, 9, 9>>, <<3, 0, 13, 10>>}

NmsScores == {80, 90}

NmsThresholds == {<<3, 10>>, <<1, 2>>}

Less(t1, t2) == t1[1] * t2[2] < t2[1] * t1[2]

\* A collection with class_ids and scores is constructed, nms is applied to
\* it, nms is applied to the result, and the two results are compared.
NextNms ==
  \/ log = <<>> /\ \E n \in 0..NmsRows :
       \E boxes \in [1..n -> NmsPool], c \in [1..n -> ClassIds], x \in [1..n -> NmsScores] :
         Construct(boxes, "xyxy", <<Entry("class_ids", c), Entry("scores", x)>>)
  \/ \E iou_thresh \in NmsThresholds :
       Len(log) = 1 /\ Call_nms(1, iou_thresh)
  \/ \E iou_thresh \in NmsThresholds :
       Len(log) = 2 /\ ret.kind = "BoxList" /\ Call_nms(ret.id, iou_thresh)
  \/ /\ Len(log) = 3
     /\ ret.kind = "BoxList"
     /\ Call_equal(ret.id, log[2].ret.id)

SpecNms == Init /\ [][NextNms]_vars

ClassOf(C, i) == get_field(C, "class_ids").data[i]

ScoreOf(C, i) == get_field(C, "scores").data[i]

\* Row j comes before row i in the walk of i's class partition: descending
\* score, rows of equal score in their original order.
Before(C, j, i) ==
  /\ ClassOf(C, j) = ClassOf(C, i)
  /\ \/ ScoreOf(C, j) > ScoreOf(C, i)
     \/ ScoreOf(C, j) = ScoreOf(C, i) /\ j < i

\* Row i is accepted by the greedy walk of its partition: no accepted row
\* before it overlaps it by more than t.
RECURSIVE Accepted(_, _, _)
Accepted(C, t, i) ==
  ~\E j \in 1..len(C) :
     /\ Before(C, j, i)
     /\ IoUAbove(C.boxes.data[j], C.boxes.data[i], t)
     /\ Accepted(C, t, j)

\* The rows of C of class c, as a collection.
Partition(C, c) ==
  ind_filter(C, Mask([i \in 1..len(C) |-> ClassOf(C, i) = c])).val

RowBag(bl) ==
  [i \in 1..len(bl) |-> <<bl.boxes.data[i], [k \in DOMAIN bl.extras |-> bl.extras[k].val.data[i]]>>]

\* C2: suppress(C, t) is exactly the rows accepted by walking each class
\* partition in descending score order and rejecting a later row whose IoU
\* with an accepted row of the partition is > t; so (a) no two surviving rows
\* of a class have IoU > t, (b) every removed row has a surviving row of its
\* class, of higher or equal score, with IoU > t, (c) the survivors of a class
\* are those of that class suppressed alone; and of boxes (0,0,10,10),
\* (1,1,9,9) of class 0 with scores 0.9, 0.8 at t = 0.5 only row 0 survives.
C2_GreedyPerClass ==
  (Len(log) = 2 /\ call.name = "nms")
    => /\ ret.kind = "BoxList"
       /\ LET C == heap[1]
              R == heap[ret.id]
              t == call.args.iou_thresh
              K == {i \in 1..len(C) : Accepted(C, t, i)}
          IN  /\ len(R) = Cardinality(K)
              /\ \E src \in [1..len(R) -> K] :
                   /\ \A a, b \in 1..len(R) : a # b => src[a] # src[b]
                   /\ RowsFrom(R, C, src)
              /\ \A a, b \in 1..len(R) :
                   (a # b /\ ClassOf(R, a) = ClassOf(R, b))
                     => ~IoUAbove(R.boxes.data[a], R.boxes.data[b], t)
              /\ \A i \in 1..len(C) \ K :
                   \E j \in K :
                     /\ ClassOf(C, j) = ClassOf(C, i)
                     /\ ScoreOf(C, j) >= ScoreOf(C, i)
                     /\ IoUAbove(C.boxes.data[j], C.boxes.data[i], t)
              /\ \A c \in ClassIds :
                   len(C) > 0 =>
                     LET P == Partition(C, c)
                     IN  len(P) > 0 =>
                           Range(RowBag(nms(P, t).val)) =
                             {RowBag(R)[a] : a \in {b \in 1..len(R) : ClassOf(R, b) = c}}
              /\ (/\ C.boxes.data = <<(<<0, 0, 10, 10>>), (<<1, 1, 9, 9>>)>>
                  /\ get_field(C, "class_ids").data = <<0, 0>>
                  /\ get_field(C, "scores").data = <<90, 80>>
                  /\ t = <<1, 2>>)
                   => /\ R.boxes.data = <<(<<0, 0, 10, 10>>)>>
                      /\ get_field(R, "scores").data = <<90>>

\* nms at 0.5 was applied to the two boxes of the scenario, and nms at 0.3 to
\* a collection in which a row of another class overlaps the best row.
C2_Witness ==
  /\ Len(log) = 2
  /\ call.name = "nms"
  /\ heap[1].boxes.data = <<(<<0, 0, 10, 10>>), (<<1, 1, 9, 9>>)>>
  /\ get_field(heap[1], "class_ids").data = <<0, 0>>
  /\ get_field(heap[1], "scores").data = <<90, 80>>
  /\ call.args.iou_thresh = <<1, 2>>
  /\ len(heap[ret.id]) = 1

\* C4: suppress(suppress(C, t), t) equals suppress(C, t) under equals, for
\* every C (the empty one too) and t; the second pass removes no row.
C4_Idempotent ==
  /\ (Len(log) = 3 /\ log[2].args.iou_thresh = log[3].args.iou_thresh)
       => /\ ret.kind = "BoxList"
          /\ len(heap[ret.id]) = len(heap[log[2].ret.id])
  /\ (Len(log) = 4 /\ log[2].args.iou_thresh = log[3].args.iou_thresh)
       => ret = [kind |-> "value", val |-> TRUE]

\* The first pass removed a row, and the second pass and the comparison ran.
C4_Witness ==
  /\ Len(log) = 4
  /\ log[2].args.iou_thresh = log[3].args.iou_thresh
  /\ len(heap[log[2].ret.id]) < len(heap[1])
  /\ len(heap[log[2].ret.id]) = 2
  /\ call.name = "equal"

\* The empty collection went through both passes and the comparison.
C4_WitnessEmpty ==
  /\ Len(log) = 4
  /\ len(heap[1]) = 0
  /\ call.name = "equal"

\* ------------------------------------------------------ two thresholds

\* Rows of a collection suppressed at two thresholds.
MonoRows == 4

MonoPool == {<<3, 5, 13, 15>>, <<3, 0, 13, 10>>, <<0, 0, 10, 10>>, <<6, 0, 16, 10>>}

\* One score: the rows are then walked in the order they are given in, and
\* the collections drawn give every order of the rows.
MonoScores == {80}

\* A collection is constructed and nms is applied to it at one threshold;
\* then nms is applied at another threshold, to the collection again or to
\* the first result.
NextMono ==
  \/ log = <<>> /\ \E n \in 0..MonoRows :
       \E boxes \in [1..n -> MonoPool], c \in [1..n -> ClassIds], x \in [1..n -> MonoScores] :
         Construct(boxes, "xyxy", <<Entry("class_ids", c), Entry("scores", x)>>)
  \/ \E iou_thresh \in NmsThresholds :
       Len(log) = 1 /\ Call_nms(1, iou_thresh)
  \/ \E iou_thresh \in NmsThresholds :
       Len(log) = 2 /\ Call_nms(1, iou_thresh)
  \/ \E iou_thresh \in NmsThresholds :
       Len(log) = 2 /\ ret.kind = "BoxList" /\ Call_nms(ret.id, iou_thresh)

SpecMono == Init /\ [][NextMono]_vars

\* The most rows any one class has in C.
MaxPerClass(C) ==
  LET count(c) == Cardinality({i \in 1..len(C) : ClassOf(C, i) = c})
  IN  CHOOSE m \in 0..len(C) :
        /\ \A c \in ClassIds : count(c) <= m
        /\ m = 0 \/ \E c \in ClassIds : count(c) = m

\* C3 as stated: for t1 < t2, len(suppress(C, t1)) <= len(suppress(C, t2)).
C3_Monotone ==
  (/\ Len(log) = 3
   /\ log[3].self = 1
   /\ Less(log[2].args.iou_thresh, log[3].args.iou_thresh))
    => len(heap[log[2].ret.id]) <= len(heap[log[3].ret.id])

\* C3 as amended: for t1 < t2, len(suppress(C, t1)) <= len(suppress(C, t2))
\* when no class of C has more than three rows; and for any C the rows that
\* survive t1 survive a pass at t2: suppress(suppress(C, t1), t2) has the
\* length of suppress(C, t1).
C3_MonotoneUpToThree ==
  /\ (/\ Len(log) = 3
      /\ log[3].self = 1
      /\ Less(log[2].args.iou_thresh, log[3].args.iou_thresh)
      /\ MaxPerClass(heap[1]) <= 3)
       => len(heap[log[2].ret.id]) <= len(heap[log[3].ret.id])
  /\ (/\ Len(log) = 3
      /\ log[3].self = log[2].ret.id
      /\ ~Less(log[3].args.iou_thresh, log[2].args.iou_thresh))
       => /\ ret.kind = "BoxList"
          /\ len(heap[ret.id]) = len(heap[log[2].ret.id])

\* Three rows of one class: the lower threshold removed a row that the
\* higher one kept.
C3_Witness ==
  /\ Len(log) = 3
  /\ log[3].self = 1
  /\ Less(log[2].args.iou_thresh, log[3].args.iou_thresh)
  /\ len(heap[1]) = 3
  /\ MaxPerClass(heap[1]) = 3
  /\ len(heap[log[2].ret.id]) < len(heap[log[3].ret.id])

\* ---------------------------------------------------------- equality runs

EqLen == 2

\* Class ids on both sides of the last integer that single precision holds
\* exactly.
EqClassIds == {0, Pow2_24, Pow2_24 + 1}

EqExtras(n) == {<<>>} \cup {<<Entry("class_ids", c)>> : c \in [1..n -> EqClassIds]}

\* Two collections are constructed and compared, each with the other.
NextEq ==
  \/ Len(log) < 2 /\ \E n \in 0..EqLen :
       \E boxes \in [1..n -> RawBoxes], extras \in EqExtras(n) :
         Construct(boxes, "xyxy", extras)
  \/ Len(log) = 2 /\ Call_equal(1, 2)
  \/ Len(log) = 3 /\ Call_equal(2, 1)

SpecEq == Init /\ [][NextEq]_vars

\* The rows of a collection: the box followed by the row's extras values.
Rows(bl) ==
  {bl.boxes.data[i] \o [k \in DOMAIN bl.extras |-> bl.extras[k].val.data[i]] :
     i \in 1..len(bl)}

\* The rows with the extras values as single-precision numbers.
FloatRows(bl) ==
  {bl.boxes.data[i] \o [k \in DOMAIN bl.extras |-> Float32(bl.extras[k].val.data[i])] :
     i \in 1..len(bl)}

Reverse(s) == [i \in DOMAIN s |-> s[Len(s) + 1 - i]]

\* B is A with its rows in reverse order.
Reversal(A, B) ==
  /\ B.boxes.data = Reverse(A.boxes.data)
  /\ DOMAIN B.extras = DOMAIN A.extras
  /\ \A k \in DOMAIN A.extras :
       /\ B.extras[k].key = A.extras[k].key
       /\ B.extras[k].val.data = Reverse(A.extras[k].val.data)

\* C8 as stated: A.equals(B) is true if and only if len(A) = len(B) and the
\* set of rows of A (box coordinates followed by the row's extras values)
\* equals the set of rows of B.
C8_EqualRowSets ==
  call.name = "equal"
    => LET A == heap[call.self]
           B == heap[call.args.other]
       IN  /\ ret.kind = "value"
           /\ ret.val = (len(A) = len(B) /\ Rows(A) = Rows(B))

\* C8, amended: A.equals(B) is true if and only if len(A) = len(B) and the
\* sets of rows are equal once every extras value is converted to single
\* precision; a collection equals its reversal, and equals is symmetric.
C8_EqualFloatRowSets ==
  /\ call.name = "equal"
       => LET A == heap[call.self]
              B == heap[call.args.other]
          IN  /\ ret.kind = "value"
              /\ ret.val = (len(A) = len(B) /\ FloatRows(A) = FloatRows(B))
              /\ Reversal(A, B) => ret.val
  /\ Len(log) = 4 => log[4].ret = log[3].ret

\* Two rows that differ are compared with the same rows in the other order,
\* both ways, and found equal.
C8_Witness ==
  /\ Len(log) = 4
  /\ len(heap[1]) = 2
  /\ Cardinality(Rows(heap[1])) = 2
  /\ Reversal(heap[1], heap[2])
  /\ heap[1].extras # <<>>
  /\ log[3].ret = [kind |-> "value", val |-> TRUE]
  /\ log[4].ret = [kind |-> "value", val |-> TRUE]

\* ----------------------------------------------------- concatenation runs

\* Two collections are constructed and a sequence of them is concatenated.
NextCat ==
  \/ Len(log) < 2 /\ \E n \in 0..MaxLen :
       \E boxes \in [1..n -> RawBoxes], extras \in ExtrasOfLen(n) :
         Construct(boxes, "xyxy", extras)
  \/ Len(log) = 2 /\ \E ids \in SeqsUpTo(1..2, 2) : Call_cat(ids)

SpecCat == Init /\ [][NextCat]_vars

\* C6: concat fails with KeySetMismatch whenever the inputs' extras key sets
\* differ, and returns no collection then; when the key sets are identical it
\* returns the inputs' boxes and extras concatenated in input order.
C6_KeySetMismatchRaised ==
  call.name = "cat"
    => LET ids == call.args.box_lists
       IN  IF \E a, b \in Range(ids) : Keys(heap[a]) # Keys(heap[b])
           THEN ret.kind = "raise" /\ ret.exc = "KeySetMismatch"
           ELSE ids # <<>> =>
                /\ ret.kind = "BoxList"
                /\ heap[ret.id].boxes.data =
                     Flatten([k \in DOMAIN ids |-> heap[ids[k]].boxes.data])
                /\ \A key \in Keys(heap[ret.id]) :
                     get_field(heap[ret.id], key).data =
                       Flatten([k \in DOMAIN ids |-> get_field(heap[ids[k]], key).data])

\* ------------------------------------------------------------ adapter runs

AdapterLen == 3

Labels == {0, 1, 2}

\* A detection dict of the model, and the labels the adapter was built to
\* ignore.
NextAdapter ==
  log = <<>> /\ \E n \in 0..AdapterLen :
    \E boxes \in [1..n -> RawBoxes], labels \in [1..n -> Labels],
       scores \in [1..n -> Scores], ignored_output_inds \in SeqsUpTo(Labels, 2) :
      Call_model_output_dict_to_boxlist(
        [boxes |-> Tensor(boxes), labels |-> Tensor(labels), scores |-> Tensor(scores)],
        ignored_output_inds)

SpecAdapter == Init /\ [][NextAdapter]_vars

\* The detections whose label is not ignored, in their order.
RECURSIVE Surviving(_, _, _)
Surviving(labels, ignored, i) ==
  IF i > Len(labels) THEN <<>>
  ELSE IF labels[i] \in ignored THEN Surviving(labels, ignored, i + 1)
  ELSE <<i>> \o Surviving(labels, ignored, i + 1)

\* C9: from_model_output, for any model output and any set of ignored labels
\* (possibly empty), returns the detections whose label is not ignored, in
\* their order, with class_ids = label - 1 and each row's box and score taken
\* from the same detection.
C9_DropsIgnored ==
  call.name = "model_output_dict_to_boxlist"
    => LET out == call.args.out
           src == Surviving(out.labels.data, Range(call.args.ignored_output_inds), 1)
       IN  /\ ret.kind = "BoxList"
           /\ heap[ret.id].boxes.data = [i \in DOMAIN src |-> out.boxes.data[src[i]]]
           /\ get_field(heap[ret.id], "class_ids").data =
                [i \in DOMAIN src |-> out.labels.data[src[i]] - 1]
           /\ get_field(heap[ret.id], "scores").data =
                [i \in DOMAIN src |-> out.scores.data[src[i]]]

\* -------------------------------------------------------- sequences of calls

MaxCalls == 4

Devices == {"cpu", "cuda"}

FrameExtras(n) ==
  {<<>>} \cup {<<Entry("class_ids", c), Entry("scores", x)>> :
                 c \in [1..n -> ClassIds], x \in [1..n -> Scores]}

\* A collection is constructed; then any method is called on any collection
\* there is, the results of earlier calls included.
NextFrame ==
  \/ log = <<>> /\ \E n \in 0..1 :
       \E boxes \in [1..n -> RawBoxes], extras \in FrameExtras(n) :
         Construct(boxes, "xyxy", extras)
  \/ Len(log) \in 1..(MaxCalls - 1) /\ \E self \in DOMAIN heap :
       \/ \E inds \in {<<>>, <<0>>} : Call_ind_filter(self, inds)
       \/ Call_score_filter(self, 50)
       \/ Call_clip_boxes(self, 5, 7)
       \/ Call_scale(self, 2, 3)
       \/ \E out_fmt \in {"yxyx", "xywh"} : Call_convert_boxes(self, out_fmt)
       \/ Call_nms(self, <<1, 2>>)
       \/ \E device \in Devices : Call_to(self, device)
       \/ Call_pin_memory(self)
  \/ Len(log) \in 1..(MaxCalls - 1) /\ \E ids \in SeqsUpTo(DOMAIN heap, 2) :
       Call_cat(ids)

SpecFrame == Init /\ [][NextFrame]_vars

\* The logical value of a collection: its boxes and its extras, wherever
\* they reside.
Logical(bl) ==
  [boxes |-> bl.boxes.data,
   extras |-> [k \in DOMAIN bl.extras |->
                 [key |-> bl.extras[k].key, data |-> bl.extras[k].val.data]]]

\* The collections there were are, after the step, what they were.
Untouched == \A id \in DOMAIN heap : heap'[id] = heap[id]

\* The step returns a collection that was not there before.
ReturnsNew == ret'.kind = "BoxList" /\ ret'.id \notin DOMAIN heap

\* The step changes the residency of its receiver only, and returns it.
MutatesResidency ==
  /\ ret'.kind = "BoxList" /\ ret'.id = call'.self
  /\ DOMAIN heap' = DOMAIN heap
  /\ \A id \in DOMAIN heap :
       IF id = call'.self THEN Logical(heap'[id]) = Logical(heap[id])
       ELSE heap'[id] = heap[id]

\* C10 as stated: the transforms leave every collection as it was and return
\* a new collection; to and pin_memory mutate the receiver, return it, and
\* change no logical value.
C10_ImmutableValues ==
  [][/\ call'.name \in {"ind_filter", "score_filter", "clip_boxes", "scale",
                        "convert_boxes", "nms", "cat"} => Untouched
     /\ (/\ call'.name \in {"ind_filter", "score_filter", "clip_boxes", "scale",
                            "nms", "cat"}
         /\ ret'.kind # "raise") => ReturnsNew
     /\ (call'.name \in {"to", "pin_memory"} /\ ret'.kind # "raise")
          => MutatesResidency]_vars

\* C10, amended: no call changes the boxes or extras values of a collection.
\* index_filter, score_filter, clip_to_image, scale, concat and to leave
\* every collection as it was and return a new one (to: one with the
\* receiver's logical values); suppress does too, except that it returns a
\* collection of no rows itself; convert_boxes returns a box array and no
\* collection; only pin_memory mutates the receiver and returns it, and it
\* changes no logical value.
C10_ValueSemantics ==
  [][/\ call'.name \in {"ind_filter", "score_filter", "clip_boxes", "scale",
                        "convert_boxes", "nms", "cat", "to"} => Untouched
     /\ (/\ call'.name \in {"ind_filter", "score_filter", "clip_boxes", "scale",
                            "cat", "to"}
         /\ ret'.kind # "raise") => ReturnsNew
     /\ (call'.name = "nms" /\ ret'.kind # "raise")
          => IF len(heap[call'.self]) = 0
             THEN ret'.kind = "BoxList" /\ ret'.id = call'.self
             ELSE ReturnsNew
     /\ (call'.name = "convert_boxes" /\ ret'.kind # "raise") => ret'.kind = "value"
     /\ (call'.name = "to" /\ ret'.kind # "raise")
          => Logical(heap'[ret'.id]) = Logical(heap[call'.self])
     /\ (call'.name = "pin_memory" /\ ret'.kind # "raise") => MutatesResidency]_vars

\* A collection with rows was scaled and then pinned: the result of scale is
\* a second collection, and the pinned receiver still has its values.
C10_Witness ==
  /\ Len(log) = 3
  /\ log[2].name = "scale" /\ log[2].self = 1 /\ log[2].ret.kind = "BoxList"
  /\ log[3].name = "pin_memory" /\ log[3].self = 1 /\ log[3].ret.kind = "BoxList"
  /\ len(heap[1]) = 1
  /\ heap[1].extras # <<>>
  /\ heap[1].boxes.mem = "pinned"
  /\ heap[2].boxes.mem = "cpu"
  /\ heap[2].boxes.data # heap[1].boxes.data

====
